---- MODULE Spec2Model ----
(***************************************************************************)
(* Job queue orchestration and progress reconciliation of EM-automate:     *)
(* the two pinia stores useTaskStore and useSimpleTaskStore                *)
(* (src/frontend/src/constants/menu-structure.ts).                         *)
(*                                                                         *)
(* JavaScript runs each synchronous stretch of a handler atomically, so    *)
(* every async store method is split at its await: one action for the      *)
(* call up to the request being sent, one action for the continuation      *)
(* that runs when the response (or the transport failure) arrives.         *)
(*                                                                         *)
(* String literals of the source are written as ASCII tokens:              *)
(*   "preparing" = '准备执行...'   "stopped" = '已停止'                    *)
(*   "paused"    = '已暂停'        "resumed" = '执行中'                    *)
(*   "idle"      = '空闲'          ""        = ''                          *)
(*   "EmptyQueue"     = Error('任务队列为空')                              *)
(*   "SubmitRejected" = Error(response.data.message || '启动任务失败')     *)
(*   "TransportFailure" = the message of the error axios rejects with      *)
(*   "TypeError" = the message of the TypeError a property read on         *)
(*                 undefined raises                                        *)
(* A job's status 'running' (TaskStatus["status"]) is what the             *)
(* specification calls active.                                             *)
(* In the simple store "completed"/"failed" stand for '执行完成' and       *)
(* '执行失败', the labels that store compares against.                     *)
(***************************************************************************)
EXTENDS Integers, Sequences, FiniteSets, Bags

VARIABLES
    store,                    \* which of the two stores this session uses
    taskQueue,                \* ref<ExtendedQueueItem[]> / ref<SimpleTask[]>
    isRunning,                \* ref<boolean>
    currentProgress,          \* ref<TaskProgress> / ref<SimpleProgress>
    taskHistory,              \* ref<TaskHistory[]>, as the number of entries
    progressPollingInterval,  \* timer handle, 0 for null
    error,                    \* ref<string | null>, "null" for null
    requests,                 \* bag of the requests sent and not yet answered
    backend,                  \* what the execution backend would report
    failedTicks               \* ticks failed in a row, as far as they are counted;
                              \* the stores themselves keep no such count

vars == <<store, taskQueue, isRunning, currentProgress, taskHistory,
          progressPollingInterval, error, requests, backend, failedTicks>>

----------------------------------------------------------------------------
\* Bounds of the model.

\* Longest queue explored.
MaxQueue == 2
\* Largest run_count an operator enters (the queue view's input has :min="1").
MaxRunCount == 1
\* Most requests awaiting their response at one time.
MaxInFlight == 2
\* Most history entries the backend reports.
MaxHistory == 0

RunCounts == 1..MaxRunCount
\* The ids the operator passes: those of the queue and one that no job has.
Ids == 1..(MaxQueue + 1)

\* The slot that `[q[i], q[i+1]] = [q[i+1], q[i]]` leaves behind when i = -1.
Undefined == [id |-> 0, run_count |-> 0, status |-> "undefined"]

----------------------------------------------------------------------------
\* Pure helpers on the queue.

HasUndefined(q) == \E i \in 1..Len(q) : q[i] = Undefined

\* task.run_count || 1
RunCountOr1(t) == IF t.run_count = 0 THEN 1 ELSE t.run_count

\* taskQueue.value.reduce((sum, task) => sum + (task.run_count || 1), 0)
RECURSIVE SumRunCountOr1(_)
SumRunCountOr1(q) ==
    IF q = <<>> THEN 0 ELSE RunCountOr1(Head(q)) + SumRunCountOr1(Tail(q))

\* taskQueue.value.reduce((sum, task) => sum + task.run_count, 0)
RECURSIVE SumRunCount(_)
SumRunCount(q) ==
    IF q = <<>> THEN 0 ELSE Head(q).run_count + SumRunCount(Tail(q))

\* computed totalTasks of useTaskStore
totalTasks == SumRunCountOr1(taskQueue)

\* computed totalRuns of useSimpleTaskStore
totalRuns == SumRunCount(taskQueue)

\* Array.prototype.findIndex(task => task.id === taskId): the 1-based index of
\* the first match, 0 for -1.
FindIndex(q, taskId) ==
    IF \E i \in 1..Len(q) : q[i].id = taskId
    THEN CHOOSE i \in 1..Len(q) :
            /\ q[i].id = taskId
            /\ \A j \in 1..(i - 1) : q[j].id # taskId
    ELSE 0

\* The callback reads task.id: it raises a TypeError on an undefined slot that
\* comes before the first match.
FindThrows(q, taskId) ==
    \E i \in 1..Len(q) :
        /\ q[i] = Undefined
        /\ \A j \in 1..(i - 1) : q[j].id # taskId

\* `${Date.now()}_${Math.random()...}`: an id no job of the queue has.
FreshId(q) == CHOOSE i \in Ids : \A j \in 1..Len(q) : q[j].id # i

Swap(q, i, j) == [q EXCEPT ![i] = q[j], ![j] = q[i]]

RemoveAt(q, i) == SubSeq(q, 1, i - 1) \o SubSeq(q, i + 1, Len(q))

----------------------------------------------------------------------------
\* The state after defineStore's setup function has run.

InitialProgress(s) ==
    [current |-> 0, total |-> 0,
     status |-> IF s = "task" THEN "" ELSE "idle", isRunning |-> FALSE]

Init ==
    /\ store \in {"task", "simple"}
    /\ taskQueue = <<>>
    /\ isRunning = FALSE
    /\ currentProgress = InitialProgress(store)
    /\ taskHistory = 0
    /\ progressPollingInterval = 0
    /\ error = "null"
    /\ requests = EmptyBag
    /\ backend = [current |-> 0, total |-> 0]
    /\ failedTicks = 0

\* What a queue method leaves alone.
ControllerUnchanged ==
    UNCHANGED <<store, failedTicks, isRunning, currentProgress, taskHistory,
                progressPollingInterval, error, requests, backend>>

----------------------------------------------------------------------------
\* Queue methods. All of them are synchronous; one that raises a TypeError
\* raises it before it has written anything.

\* The job addTask pushes.
NewTask(s, q, rc) ==
    [id |-> FreshId(q), run_count |-> rc,
     status |-> IF s = "task" THEN "pending" ELSE "none"]

addTask(rc) ==
    /\ Len(taskQueue) < MaxQueue
    /\ taskQueue' = Append(taskQueue, NewTask(store, taskQueue, rc))
    /\ ControllerUnchanged

removeTask(taskId) ==
    /\ taskQueue' = IF ~FindThrows(taskQueue, taskId)
                       /\ FindIndex(taskQueue, taskId) # 0
                    THEN RemoveAt(taskQueue, FindIndex(taskQueue, taskId))
                    ELSE taskQueue
    /\ ControllerUnchanged

\* Object.assign(task, updates): the fields updates has replace the job's.
Assign(t, updates) ==
    [f \in DOMAIN t |-> IF f \in DOMAIN updates THEN updates[f] ELSE t[f]]

\* updates is a Partial of the job type: a record with some of its fields.
updateTask(taskId, updates) ==
    /\ taskQueue' = IF ~FindThrows(taskQueue, taskId)
                       /\ FindIndex(taskQueue, taskId) # 0
                    THEN [taskQueue EXCEPT ![FindIndex(taskQueue, taskId)] =
                             Assign(@, updates)]
                    ELSE taskQueue
    /\ ControllerUnchanged

\* index > 0 in the source's 0-based indices is FindIndex > 1 here.
moveTaskUp(taskId) ==
    /\ store = "task"
    /\ taskQueue' = IF ~FindThrows(taskQueue, taskId)
                       /\ FindIndex(taskQueue, taskId) > 1
                    THEN Swap(taskQueue, FindIndex(taskQueue, taskId) - 1,
                              FindIndex(taskQueue, taskId))
                    ELSE taskQueue
    /\ ControllerUnchanged

\* index < length - 1 in the source's 0-based indices is FindIndex < Len here,
\* and it is true of index -1 on a non-empty queue: the destructuring swap
\* then stores queue[0] under the property "-1" and writes queue[-1], which
\* is undefined, into slot 0.
moveTaskDown(taskId) ==
    /\ store = "task"
    /\ taskQueue' = IF ~FindThrows(taskQueue, taskId)
                       /\ FindIndex(taskQueue, taskId) < Len(taskQueue)
                    THEN IF FindIndex(taskQueue, taskId) = 0
                         THEN [taskQueue EXCEPT ![1] = Undefined]
                         ELSE Swap(taskQueue, FindIndex(taskQueue, taskId),
                                   FindIndex(taskQueue, taskId) + 1)
                    ELSE taskQueue
    /\ ControllerUnchanged

clearQueue ==
    /\ taskQueue' = IF ~isRunning THEN <<>> ELSE taskQueue
    /\ ControllerUnchanged

----------------------------------------------------------------------------
\* Requests to the execution backend (api.post / api.get).

Request(kind, cur, tasks) == [kind |-> kind, cur |-> cur, tasks |-> tasks]

\* The model's bound on requests awaiting their response.
CanSend == BagCardinality(requests) < MaxInFlight

\* The requests of one kind that await their response.
Pending(kind) == {r \in BagToSet(requests) : r.kind = kind}

Send(reqs, r) == reqs (+) SetToBag({r})

\* The request answered leaves the bag.
Answered(r) == requests (-) SetToBag({r})

\* taskQueue.value.map(task => ({name, type, params, priority,
\*                               run_count: task.run_count || 1}))
RECURSIVE apiTasks(_)
apiTasks(q) ==
    IF q = <<>> THEN <<>>
    ELSE <<[run_count |-> RunCountOr1(Head(q))]>> \o apiTasks(Tail(q))

\* { tasks: taskQueue.value } of the simple store: the jobs as they are.
RECURSIVE simpleTasks(_)
simpleTasks(q) ==
    IF q = <<>> THEN <<>>
    ELSE <<[run_count |-> Head(q).run_count]>> \o simpleTasks(Tail(q))

\* The backend's view of a submitted queue: its total of runs.
RECURSIVE PayloadTotal(_)
PayloadTotal(ts) ==
    IF ts = <<>> THEN 0 ELSE Head(ts).run_count + PayloadTotal(Tail(ts))

----------------------------------------------------------------------------
\* The progress poller's handle.

\* The handle setInterval returns: all that the store does with it is test it
\* for null and pass it to clearInterval, so one non-null value stands for all.
NewTimer == 1

\* A cancellation that arms a timer when there is none to clear.
stopProgressPollingMutant(handle) == IF handle # 0 THEN 0 ELSE NewTimer

\* stopProgressPolling(): clearInterval and null the handle, when there is one.
stopProgressPolling(handle) == IF handle # 0 THEN 0 ELSE handle

\* startProgressPolling(): stopProgressPolling(), then setInterval(..., 1000).
\* The handle it leaves in progressPollingInterval is the new timer's.
startProgressPolling(handle) == NewTimer

----------------------------------------------------------------------------
\* startExecution.

\* The catch block of startExecution, before it rethrows.
StartCatch(message) ==
    /\ error' = message
    /\ isRunning' = FALSE
    /\ currentProgress' = [currentProgress EXCEPT !.isRunning = FALSE]

\* The progress startExecution resets to.
PreparingProgress(total) ==
    [current |-> 0, total |-> total, status |-> "preparing", isRunning |-> TRUE]

\* The emptiness test left out: startExecution never sees an empty queue.
StartQueueEmptyMutant(q) == Len(q) < 0

\* taskQueue.value.length === 0
StartQueueEmpty(q) == Len(q) = 0

\* useTaskStore.startExecution up to `await api.post('/api/tasks/execute', ...)`.
\* It throws, and catches, on an empty queue; on a queue with an undefined
\* slot totalTasks.value raises a TypeError after error and isRunning are
\* written and before currentProgress is.
startExecution ==
    /\ store = "task"
    /\ IF StartQueueEmpty(taskQueue)
       THEN /\ StartCatch("EmptyQueue")
            /\ UNCHANGED requests
       ELSE IF HasUndefined(taskQueue)
       THEN /\ StartCatch("TypeError")
            /\ UNCHANGED requests
       ELSE /\ CanSend
            /\ error' = "null"
            /\ isRunning' = TRUE
            /\ currentProgress' = PreparingProgress(totalTasks)
            /\ requests' = Send(requests, Request("execute", 0, apiTasks(taskQueue)))
    /\ UNCHANGED <<store, failedTicks, taskQueue, taskHistory, progressPollingInterval, backend>>

\* useSimpleTaskStore.startExecution up to its await.
simpleStartExecution ==
    /\ store = "simple"
    /\ IF StartQueueEmpty(taskQueue)
       THEN /\ StartCatch("EmptyQueue")
            /\ UNCHANGED requests
       ELSE /\ CanSend
            /\ error' = "null"
            /\ isRunning' = TRUE
            /\ currentProgress' = PreparingProgress(totalRuns)
            /\ requests' = Send(requests, Request("execute", 0, simpleTasks(taskQueue)))
    /\ UNCHANGED <<store, failedTicks, taskQueue, taskHistory, progressPollingInterval, backend>>

\* The backend accepts a submitted queue and starts on it.
BackendAccept(ts) == [current |-> 0, total |-> PayloadTotal(ts)]

\* startExecution after the await, response.data.success true.
startExecutionAccepted(r) ==
    /\ r.kind = "execute"
    /\ requests' = Answered(r)
    /\ backend' = BackendAccept(r.tasks)
    /\ progressPollingInterval' = startProgressPolling(progressPollingInterval)
    /\ failedTicks' = 0
    /\ UNCHANGED <<store, taskQueue, isRunning, currentProgress, taskHistory, error>>

\* startExecution after the await, response.data.success false
\* ("SubmitRejected") or api.post rejected ("TransportFailure").
startExecutionFailed(r, message) ==
    /\ r.kind = "execute"
    /\ requests' = Answered(r)
    /\ StartCatch(message)
    /\ UNCHANGED <<store, failedTicks, taskQueue, taskHistory, progressPollingInterval, backend>>

----------------------------------------------------------------------------
\* stopExecution.

\* stopExecution without its guard: it posts the stop request in any state.
stopExecutionMutant ==
    /\ CanSend
    /\ requests' = Send(requests, Request("stop", 0, <<>>))
    /\ UNCHANGED <<store, failedTicks, taskQueue, isRunning, currentProgress,
                   taskHistory, progressPollingInterval, error, backend>>

\* Up to `await api.post('/api/tasks/stop')`; returns at once when not running.
stopExecution ==
    /\ requests' = IF ~isRunning THEN requests
                   ELSE Send(requests, Request("stop", 0, <<>>))
    /\ isRunning => CanSend
    /\ UNCHANGED <<store, failedTicks, taskQueue, isRunning, currentProgress, taskHistory,
                   progressPollingInterval, error, backend>>

\* The progress the simple store writes on stop.
StoppedProgress ==
    [current |-> 0, total |-> 0, status |-> "stopped", isRunning |-> FALSE]

\* useTaskStore.stopExecution after the await resolved.
stopExecutionResolved(r) ==
    /\ store = "task"
    /\ r.kind = "stop"
    /\ requests' = Answered(r)
    /\ isRunning' = FALSE
    /\ currentProgress' = [currentProgress EXCEPT !.isRunning = FALSE,
                                                  !.status = "stopped"]
    /\ progressPollingInterval' = stopProgressPolling(progressPollingInterval)
    /\ UNCHANGED <<store, failedTicks, taskQueue, taskHistory, error, backend>>

\* useTaskStore.stopExecution when api.post rejected: the catch block.
stopExecutionFailed(r) ==
    /\ store = "task"
    /\ r.kind = "stop"
    /\ requests' = Answered(r)
    /\ error' = "TransportFailure"
    /\ UNCHANGED <<store, failedTicks, taskQueue, isRunning, currentProgress, taskHistory,
                   progressPollingInterval, backend>>

\* useSimpleTaskStore.stopExecution after the await resolved.
simpleStopExecutionResolved(r) ==
    /\ store = "simple"
    /\ r.kind = "stop"
    /\ requests' = Answered(r)
    /\ isRunning' = FALSE
    /\ currentProgress' = StoppedProgress
    /\ error' = "null"
    /\ progressPollingInterval' = stopProgressPolling(progressPollingInterval)
    /\ UNCHANGED <<store, failedTicks, taskQueue, taskHistory, backend>>

\* useSimpleTaskStore.stopExecution when api.post rejected: the catch block.
simpleStopExecutionFailed(r) ==
    /\ store = "simple"
    /\ r.kind = "stop"
    /\ requests' = Answered(r)
    /\ error' = "TransportFailure"
    /\ isRunning' = FALSE
    /\ currentProgress' = StoppedProgress
    /\ UNCHANGED <<store, failedTicks, taskQueue, taskHistory, progressPollingInterval, backend>>

----------------------------------------------------------------------------
\* pauseExecution and resumeExecution (useTaskStore only).

\* Either of them up to its await; both return at once when not running.
pauseOrResume(kind) ==
    /\ store = "task"
    /\ requests' = IF ~isRunning THEN requests
                   ELSE Send(requests, Request(kind, 0, <<>>))
    /\ isRunning => CanSend
    /\ UNCHANGED <<store, failedTicks, taskQueue, isRunning, currentProgress, taskHistory,
                   progressPollingInterval, error, backend>>

pauseExecution == pauseOrResume("pause")

resumeExecution == pauseOrResume("resume")

\* A pause that takes the controller out of running.
pauseExecutionResolvedMutant(r) ==
    /\ r.kind = "pause"
    /\ requests' = Answered(r)
    /\ currentProgress' = [currentProgress EXCEPT !.status = "paused"]
    /\ isRunning' = FALSE
    /\ UNCHANGED <<store, failedTicks, taskQueue, taskHistory,
                   progressPollingInterval, error, backend>>

pauseExecutionResolved(r) ==
    /\ r.kind = "pause"
    /\ requests' = Answered(r)
    /\ currentProgress' = [currentProgress EXCEPT !.status = "paused"]
    /\ UNCHANGED <<store, failedTicks, taskQueue, isRunning, taskHistory,
                   progressPollingInterval, error, backend>>

resumeExecutionResolved(r) ==
    /\ r.kind = "resume"
    /\ requests' = Answered(r)
    /\ currentProgress' = [currentProgress EXCEPT !.status = "resumed"]
    /\ UNCHANGED <<store, failedTicks, taskQueue, isRunning, taskHistory,
                   progressPollingInterval, error, backend>>

\* The catch block of either.
pauseOrResumeFailed(r) ==
    /\ r.kind \in {"pause", "resume"}
    /\ requests' = Answered(r)
    /\ error' = "TransportFailure"
    /\ UNCHANGED <<store, failedTicks, taskQueue, isRunning, currentProgress, taskHistory,
                   progressPollingInterval, backend>>

----------------------------------------------------------------------------
\* The interval callback of startProgressPolling.

\* The labels the backend reports in a progress snapshot.
BackendLabels == {"running", "completed", "failed"}

\* The totals the backend may report: the one it accepted, or another one.
ReportedTotals == {backend.total, backend.total + 1}

\* setInterval(..., 1000): the period of the poller, in milliseconds.
PollIntervalMs == 1000

\* axios.create({ timeout: 10000 }): how long a request may stay unanswered.
RequestTimeoutMs == 10000

\* How many progress requests await their response.
OutstandingPolls ==
    BagCardinality([r \in Pending("progress") |-> CopiesIn(r, requests)])

\* A request outlives the period, so the next tick can come before its
\* response; the callback itself has no guard against that.
TickMayOverlap == RequestTimeoutMs > PollIntervalMs

\* A tick of the live timer, up to `await api.get('/api/tasks/progress')`.
\* The request carries the count the backend has reached when it is sent.
pollTick ==
    /\ progressPollingInterval # 0
    /\ OutstandingPolls = 0 \/ TickMayOverlap
    /\ CanSend
    /\ requests' = Send(requests, Request("progress", backend.current, <<>>))
    /\ UNCHANGED <<store, failedTicks, taskQueue, isRunning, currentProgress, taskHistory,
                   progressPollingInterval, error, backend>>

\* currentProgress.value = { ...currentProgress.value, ...progress }
MergeProgress(local, progress) ==
    [current |-> progress.current, total |-> progress.total,
     status |-> progress.status, isRunning |-> progress.isRunning]

\* useTaskStore: progress.status === 'completed' || progress.status === 'failed'
IsTerminal(progress) == progress.status \in {"completed", "failed"}

\* useSimpleTaskStore: the two labels, or !progress.isRunning
simpleIsTerminal(progress) ==
    \/ progress.status \in {"completed", "failed"}
    \/ ~progress.isRunning

\* The snapshot a response to request r carries.
Snapshot(r, total, status, running) ==
    [current |-> r.cur, total |-> total, status |-> status, isRunning |-> running]

\* The callback after the await, response.data.success && response.data.data.
\* On a terminal label useTaskStore stops polling and awaits fetchTaskHistory(),
\* whose api.get is sent before the callback yields.
progressResponse(r, progress) ==
    /\ store = "task"
    /\ r.kind = "progress"
    /\ IF IsTerminal(progress)
       THEN /\ currentProgress' =
                 [MergeProgress(currentProgress, progress) EXCEPT !.isRunning = FALSE]
            /\ isRunning' = FALSE
            /\ progressPollingInterval' = stopProgressPolling(progressPollingInterval)
            /\ requests' = Send(Answered(r), Request("history", 0, <<>>))
       ELSE /\ currentProgress' = MergeProgress(currentProgress, progress)
            /\ requests' = Answered(r)
            /\ UNCHANGED <<isRunning, progressPollingInterval>>
    /\ failedTicks' = 0
    /\ UNCHANGED <<store, taskQueue, taskHistory, error, backend>>

simpleProgressResponse(r, progress) ==
    /\ store = "simple"
    /\ r.kind = "progress"
    /\ requests' = Answered(r)
    /\ IF simpleIsTerminal(progress)
       THEN /\ currentProgress' =
                 [MergeProgress(currentProgress, progress) EXCEPT !.isRunning = FALSE]
            /\ isRunning' = FALSE
            /\ progressPollingInterval' = stopProgressPolling(progressPollingInterval)
       ELSE /\ currentProgress' = MergeProgress(currentProgress, progress)
            /\ UNCHANGED <<isRunning, progressPollingInterval>>
    /\ failedTicks' = 0
    /\ UNCHANGED <<store, taskQueue, taskHistory, error, backend>>

\* A failed tick that gives up: it clears the timer and leaves running.
progressResponseDroppedMutant(r, counted) ==
    /\ r.kind = "progress"
    /\ requests' = Answered(r)
    /\ failedTicks' = IF failedTicks < counted THEN failedTicks + 1 ELSE failedTicks
    /\ progressPollingInterval' = 0
    /\ isRunning' = FALSE
    /\ UNCHANGED <<store, taskQueue, currentProgress, taskHistory, error, backend>>

\* The callback after the await when the response carries no data, or when
\* api.get rejected and the catch block logs it. The store counts nothing;
\* failedTicks records the failure while it is below `counted`, the number of
\* failures in a row the specification keeps apart.
progressResponseDropped(r, counted) ==
    /\ r.kind = "progress"
    /\ requests' = Answered(r)
    /\ failedTicks' = IF failedTicks < counted THEN failedTicks + 1 ELSE failedTicks
    /\ UNCHANGED <<store, taskQueue, isRunning, currentProgress, taskHistory,
                   progressPollingInterval, error, backend>>

----------------------------------------------------------------------------
\* History and reset.

\* fetchTaskHistory() called from outside the store, up to its await.
fetchTaskHistory ==
    /\ store = "task"
    /\ CanSend
    /\ requests' = Send(requests, Request("history", 0, <<>>))
    /\ UNCHANGED <<store, failedTicks, taskQueue, isRunning, currentProgress, taskHistory,
                   progressPollingInterval, error, backend>>

\* fetchTaskHistory after the await: n entries when the response carries data,
\* nothing changed otherwise (ok = FALSE).
fetchTaskHistoryResponse(r, ok, n) ==
    /\ r.kind = "history"
    /\ requests' = Answered(r)
    /\ taskHistory' = IF ok THEN n ELSE taskHistory
    /\ UNCHANGED <<store, failedTicks, taskQueue, isRunning, currentProgress,
                   progressPollingInterval, error, backend>>

reset ==
    /\ progressPollingInterval' = stopProgressPolling(progressPollingInterval)
    /\ taskQueue' = <<>>
    /\ isRunning' = FALSE
    /\ currentProgress' = InitialProgress(store)
    /\ error' = "null"
    /\ UNCHANGED <<store, failedTicks, taskHistory, requests, backend>>

----------------------------------------------------------------------------
\* The execution backend works through the queue it accepted.

BackendAdvance ==
    /\ backend.current < backend.total
    /\ backend' = [backend EXCEPT !.current = @ + 1]
    /\ UNCHANGED <<store, failedTicks, taskQueue, isRunning, currentProgress, taskHistory,
                   progressPollingInterval, error, requests>>

----------------------------------------------------------------------------

Next ==
    \/ \E rc \in RunCounts : addTask(rc)
    \/ \E taskId \in Ids : removeTask(taskId)
    \/ \E taskId \in Ids, rc \in RunCounts :
          updateTask(taskId, [run_count |-> rc])
    \/ \E taskId \in Ids : moveTaskUp(taskId)
    \/ \E taskId \in Ids : moveTaskDown(taskId)
    \/ clearQueue
    \/ startExecution
    \/ simpleStartExecution
    \/ \E r \in BagToSet(requests) : startExecutionAccepted(r)
    \/ \E r \in BagToSet(requests), message \in {"SubmitRejected", "TransportFailure"} :
          startExecutionFailed(r, message)
    \/ stopExecution
    \/ \E r \in BagToSet(requests) : stopExecutionResolved(r)
    \/ \E r \in BagToSet(requests) : stopExecutionFailed(r)
    \/ \E r \in BagToSet(requests) : simpleStopExecutionResolved(r)
    \/ \E r \in BagToSet(requests) : simpleStopExecutionFailed(r)
    \/ pauseExecution
    \/ resumeExecution
    \/ \E r \in BagToSet(requests) : pauseExecutionResolved(r)
    \/ \E r \in BagToSet(requests) : resumeExecutionResolved(r)
    \/ \E r \in BagToSet(requests) : pauseOrResumeFailed(r)
    \/ pollTick
    \/ \E r \in BagToSet(requests), total \in ReportedTotals,
          status \in BackendLabels, running \in BOOLEAN :
          progressResponse(r, Snapshot(r, total, status, running))
    \/ \E r \in BagToSet(requests), total \in ReportedTotals,
          status \in BackendLabels, running \in BOOLEAN :
          simpleProgressResponse(r, Snapshot(r, total, status, running))
    \/ \E r \in BagToSet(requests) : progressResponseDropped(r, 0)
    \/ fetchTaskHistory
    \/ \E r \in BagToSet(requests), ok \in BOOLEAN, n \in 0..MaxHistory :
          fetchTaskHistoryResponse(r, ok, n)
    \/ reset
    \/ BackendAdvance

Spec == Init /\ [][Next]_vars

----------------------------------------------------------------------------
\* A run and its poller, with the failed ticks counted.

\* The number of failed ticks in a row at which polling is to give up
\* (the threshold of the scenario with ten failures in a row).
FailureThreshold == 5

NextPolling ==
    \/ \E rc \in RunCounts : addTask(rc)
    \/ startExecution
    \/ simpleStartExecution
    \/ \E r \in BagToSet(requests) : startExecutionAccepted(r)
    \/ stopExecution
    \/ \E r \in BagToSet(requests) : stopExecutionResolved(r)
    \/ \E r \in BagToSet(requests) : simpleStopExecutionResolved(r)
    \/ pollTick
    \/ \E r \in BagToSet(requests), total \in ReportedTotals,
          status \in BackendLabels, running \in BOOLEAN :
          progressResponse(r, Snapshot(r, total, status, running))
    \/ \E r \in BagToSet(requests), total \in ReportedTotals,
          status \in BackendLabels, running \in BOOLEAN :
          simpleProgressResponse(r, Snapshot(r, total, status, running))
    \/ \E r \in BagToSet(requests) : progressResponseDropped(r, FailureThreshold)
    \/ BackendAdvance

SpecPolling == Init /\ [][NextPolling]_vars

----------------------------------------------------------------------------
\* The queue under every update its methods accept, and a run beside it.

\* The run counts the queue methods are given here.
WideRunCounts == 1..(MaxRunCount + 1)

\* The values of TaskStatus["status"] the queue methods are given here, of
\* "pending" | "running" | "completed" | "failed" | "paused".
JobStatuses == {"pending", "running"}

\* The partial jobs updateTask is given: Partial<ExtendedQueueItem> has id,
\* run_count and status, Partial<SimpleTask> has id and run_count.
Updates(s) ==
    {[run_count |-> rc] : rc \in WideRunCounts}
    \cup {[id |-> i] : i \in Ids}
    \cup (IF s = "task" THEN {[status |-> st] : st \in JobStatuses} ELSE {})

NextQueue ==
    \/ \E rc \in WideRunCounts : addTask(rc)
    \/ \E taskId \in Ids : removeTask(taskId)
    \/ \E taskId \in Ids, updates \in Updates(store) : updateTask(taskId, updates)
    \/ \E taskId \in Ids : moveTaskUp(taskId)
    \/ \E taskId \in Ids : moveTaskDown(taskId)
    \/ clearQueue
    \/ startExecution
    \/ simpleStartExecution
    \/ \E r \in BagToSet(requests) : startExecutionAccepted(r)
    \/ stopExecution
    \/ \E r \in BagToSet(requests) : stopExecutionResolved(r)
    \/ \E r \in BagToSet(requests) : simpleStopExecutionResolved(r)

SpecQueue == Init /\ [][NextQueue]_vars

----------------------------------------------------------------------------
\* One run of jobs that repeat three times, polled to its end.

\* The run count of the job of the end-to-end scenario.
ScenarioRunCount == 3

NextScenario ==
    \/ addTask(ScenarioRunCount)
    \/ startExecution
    \/ simpleStartExecution
    \/ \E r \in BagToSet(requests) : startExecutionAccepted(r)
    \/ pollTick
    \/ \E r \in BagToSet(requests), total \in ReportedTotals,
          status \in BackendLabels, running \in BOOLEAN :
          progressResponse(r, Snapshot(r, total, status, running))
    \/ \E r \in BagToSet(requests), total \in ReportedTotals,
          status \in BackendLabels, running \in BOOLEAN :
          simpleProgressResponse(r, Snapshot(r, total, status, running))
    \/ \E r \in BagToSet(requests), ok \in BOOLEAN, n \in 0..MaxHistory :
          fetchTaskHistoryResponse(r, ok, n)
    \/ BackendAdvance

SpecScenario == Init /\ [][NextScenario]_vars

----------------------------------------------------------------------------
\* The steps the claims speak of.

\* A call of one of the six queue methods.
QueueMutation ==
    \/ \E rc \in RunCounts : addTask(rc)
    \/ \E taskId \in Ids : removeTask(taskId)
    \/ \E taskId \in Ids, rc \in RunCounts :
          updateTask(taskId, [run_count |-> rc])
    \/ \E taskId \in Ids : moveTaskUp(taskId)
    \/ \E taskId \in Ids : moveTaskDown(taskId)
    \/ clearQueue

\* A call of startExecution, in either store.
StartCalled == startExecution \/ simpleStartExecution

\* stopExecution runs on after its request was answered or failed.
StopSettled ==
    \E r \in BagToSet(requests) :
        \/ stopExecutionResolved(r)
        \/ stopExecutionFailed(r)
        \/ simpleStopExecutionResolved(r)
        \/ simpleStopExecutionFailed(r)

\* The snapshots a response to r may carry.
Snapshots(r) ==
    {Snapshot(r, total, status, running) :
        total \in ReportedTotals, status \in BackendLabels, running \in BOOLEAN}

\* The interval callback reconciles the snapshot of a response.
Reconciled(r, progress) ==
    progressResponse(r, progress) \/ simpleProgressResponse(r, progress)

\* The spec's terminal snapshot: a terminal label, or isRunning false.
SpecTerminal(progress) ==
    progress.status \in {"completed", "failed"} \/ ~progress.isRunning

----------------------------------------------------------------------------
\* C1: every queue mutation (addTask, removeTask, updateTask, moveTaskUp,
\* moveTaskDown, clearQueue) called while isRunning is true leaves the queue
\* unchanged; called while idle, addTask appends its job and clearQueue
\* empties the queue.
C1_MutationsRejectedWhileRunning ==
    [][QueueMutation =>
         /\ isRunning => taskQueue' = taskQueue
         /\ (~isRunning /\ \E rc \in RunCounts : addTask(rc)) =>
                Len(taskQueue') = Len(taskQueue) + 1
         /\ (~isRunning /\ clearQueue) => taskQueue' = <<>>]_vars

\* C2: when stopExecution, called in a run that is still on and polling, runs
\* on after its request, whether the request succeeded or failed, the
\* controller is idle, the progress snapshot says stopped and not running, and
\* the poller is cancelled.
C2_StopAlwaysSettles ==
    [][(isRunning /\ progressPollingInterval # 0 /\ StopSettled) =>
         /\ isRunning' = FALSE
         /\ currentProgress'.status = "stopped"
         /\ currentProgress'.isRunning = FALSE
         /\ progressPollingInterval' = 0]_vars

\* C3: a progress response that arrives after stopExecution has cancelled the
\* poller is discarded: the snapshot keeps the stopped value and the
\* controller flag is not touched.
C3_LateResponseDiscarded ==
    [][(/\ progressPollingInterval = 0
        /\ currentProgress.status = "stopped"
        /\ \E r \in BagToSet(requests) : \E progress \in Snapshots(r) :
              Reconciled(r, progress))
       => /\ currentProgress' = currentProgress
          /\ isRunning' = isRunning]_vars

\* C4: at every moment at most one progress request awaits its response.
C4_SingleFlight == OutstandingPolls <= 1

\* C5: whenever a reconciled snapshot has a terminal label or isRunning false,
\* the controller leaves running and the poller is cancelled.
C5_TerminalStopsRun ==
    [][\A r \in BagToSet(requests) : \A progress \in Snapshots(r) :
          (Reconciled(r, progress) /\ SpecTerminal(progress)) =>
              /\ isRunning' = FALSE
              /\ progressPollingInterval' = 0]_vars

\* C6: startExecution called while isRunning is true changes neither the
\* controller flag, the progress snapshot nor the poller, and sends nothing.
C6_StartRejectedWhileRunning ==
    [][(isRunning /\ StartCalled) =>
         UNCHANGED <<isRunning, currentProgress, progressPollingInterval,
                     requests>>]_vars

\* C7: startExecution on an empty queue fails with the empty-queue error,
\* sends no request, starts no poller and leaves the controller idle.
C7_StartOnEmptyQueue ==
    [][(taskQueue = <<>> /\ StartCalled) =>
         /\ error' = "EmptyQueue"
         /\ requests' = requests
         /\ progressPollingInterval' = progressPollingInterval
         /\ isRunning' = FALSE]_vars

\* C7 witness: startExecution has failed on an empty queue of an idle store.
C7_Witness ==
    /\ error = "EmptyQueue"
    /\ taskQueue = <<>>
    /\ ~isRunning
    /\ progressPollingInterval = 0
    /\ requests = EmptyBag

\* C8: when the submit request is rejected or fails in transport,
\* startExecution ends with the controller idle, the failure in error, and no
\* poller running.
C8_SubmitFailureSettles ==
    [][(\E r \in BagToSet(requests) :
           \E message \in {"SubmitRejected", "TransportFailure"} :
              startExecutionFailed(r, message))
       => /\ isRunning' = FALSE
          /\ error' \in {"SubmitRejected", "TransportFailure"}
          /\ progressPollingInterval' = 0]_vars

\* C9: startExecution from idle on a non-empty queue resets the snapshot to
\* current 0, total the sum of the run counts, running, and submits the jobs
\* in queue order; when the backend accepts, the controller is running and
\* the poller is started.
C9_StartThenAccepted ==
    [][/\ (~isRunning /\ taskQueue # <<>> /\ ~HasUndefined(taskQueue)
           /\ StartCalled) =>
             /\ isRunning' = TRUE
             /\ currentProgress'.current = 0
             /\ currentProgress'.total = SumRunCount(taskQueue)
             /\ currentProgress'.isRunning = TRUE
             /\ \E r \in BagToSet(requests') :
                   /\ r.kind = "execute"
                   /\ Len(r.tasks) = Len(taskQueue)
                   /\ \A i \in 1..Len(taskQueue) :
                         r.tasks[i].run_count = taskQueue[i].run_count
       /\ (\E r \in BagToSet(requests) : startExecutionAccepted(r)) =>
             /\ isRunning' = TRUE
             /\ progressPollingInterval' # 0]_vars

\* C10: while a run is on and polling, each snapshot reconciled before a
\* terminal one leaves current at least what it was, in whatever order the
\* responses arrive (the backend's own count never falls during a run).
C10_CurrentNeverRegresses ==
    [][(/\ isRunning
        /\ progressPollingInterval # 0
        /\ \E r \in BagToSet(requests) : \E progress \in Snapshots(r) :
              ~SpecTerminal(progress) /\ Reconciled(r, progress))
       => currentProgress'.current >= currentProgress.current]_vars

\* The request fetchTaskHistory sends.
HistoryRequest == Request("history", 0, <<>>)

\* A run has ended by terminal detection: the label is terminal, the
\* controller has left running and the poller is cancelled.
TerminalReconciled ==
    /\ ~isRunning
    /\ progressPollingInterval = 0
    /\ currentProgress.status \in {"completed", "failed"}

\* C11: when a snapshot reconciled during a polling run reports a total other
\* than the local one, the local total is kept while current, status label
\* and isRunning of the snapshot are applied.
C11_TotalNotOverwritten ==
    [][\A r \in BagToSet(requests) : \A progress \in Snapshots(r) :
          (/\ isRunning
           /\ progressPollingInterval # 0
           /\ ~SpecTerminal(progress)
           /\ progress.total # currentProgress.total
           /\ Reconciled(r, progress))
          => /\ currentProgress'.total = currentProgress.total
             /\ currentProgress'.current = progress.current
             /\ currentProgress'.status = progress.status
             /\ currentProgress'.isRunning = progress.isRunning]_vars

\* C12: once a terminal snapshot has been reconciled, a progress response
\* that arrives later changes neither the progress snapshot, the controller
\* flag nor the poller.
C12_LateResponseAfterTerminalIgnored ==
    [][(/\ TerminalReconciled
        /\ \E r \in BagToSet(requests) : \E progress \in Snapshots(r) :
              Reconciled(r, progress))
       => UNCHANGED <<currentProgress, isRunning, progressPollingInterval>>]_vars

\* C13: a run that has ended by terminal detection has had its one history
\* refresh: a progress response reconciled afterwards sends no further
\* history request.
C13_HistoryOncePerRun ==
    [][(/\ store = "task"
        /\ TerminalReconciled
        /\ \E r \in BagToSet(requests) : \E progress \in Snapshots(r) :
              progressResponse(r, progress))
       => CopiesIn(HistoryRequest, requests') <=
             CopiesIn(HistoryRequest, requests)]_vars

\* A tick of the timer sends a progress request.
TickEnabled ==
    /\ progressPollingInterval # 0
    /\ OutstandingPolls = 0 \/ TickMayOverlap
    /\ CanSend

\* A tick of a polling run fails.
TickFailed ==
    /\ isRunning
    /\ progressPollingInterval # 0
    /\ \E r \in BagToSet(requests) : progressResponseDropped(r, FailureThreshold)

\* C14: the failed tick that brings the failures in a row to the threshold
\* stops the poller and forces the controller out of running into the
\* PollingExhausted error.
C14_PollingExhausted ==
    [][(TickFailed /\ failedTicks' = FailureThreshold /\ failedTicks' # failedTicks)
       => /\ progressPollingInterval' = 0
          /\ isRunning' = FALSE
          /\ error' = "PollingExhausted"]_vars

\* C15: a failed tick below the threshold leaves the poller, the controller
\* flag, the progress snapshot and error as they were, and the next tick
\* still sends its request.
C15_FailedTickChangesNothing ==
    [][(TickFailed /\ failedTicks' < FailureThreshold)
       => /\ UNCHANGED <<isRunning, currentProgress, progressPollingInterval,
                         error, taskQueue, taskHistory>>
          /\ TickEnabled']_vars

\* C15 witness: one tick of a polling run has failed and the run polls on.
C15_Witness ==
    /\ failedTicks = 1
    /\ isRunning
    /\ progressPollingInterval # 0
    /\ TickEnabled

\* C16: stopExecution called when the controller is not running sends no stop
\* request and changes nothing: not the controller flag, the progress
\* snapshot, error, the poller or the queue.
C16_StopWhenIdleIsNoOp ==
    [][(~isRunning /\ stopExecution) => UNCHANGED vars]_vars

\* C16 witness: stopExecution has settled a run, so that the next call finds
\* the controller idle; nothing of a stop request is left.
C16_Witness ==
    /\ ~isRunning
    /\ currentProgress.status = "stopped"
    /\ progressPollingInterval = 0
    /\ Pending("stop") = {}
    /\ Pending("execute") = {}

\* A step that calls stopProgressPolling() when the handle is already null.
CancelledAgain ==
    /\ progressPollingInterval = 0
    /\ \/ reset
       \/ \E r \in BagToSet(requests) :
             stopExecutionResolved(r) \/ simpleStopExecutionResolved(r)
       \/ \E r \in BagToSet(requests) : \E progress \in Snapshots(r) :
             /\ Reconciled(r, progress)
             /\ IF store = "task" THEN IsTerminal(progress)
                                  ELSE simpleIsTerminal(progress)

\* C17: cancelling the poller when it is already cancelled leaves the handle
\* null, and cancelling twice is the same as cancelling once.
C17_CancelIsIdempotent ==
    [][CancelledAgain =>
         /\ progressPollingInterval' = 0
         /\ stopProgressPolling(stopProgressPolling(progressPollingInterval)) =
               stopProgressPolling(progressPollingInterval)]_vars

\* C17 witness: stopExecution has resolved, and cancelled, while the submit of
\* its run was still awaited and no poller had been started.
C17_Witness ==
    /\ ~isRunning
    /\ currentProgress.status = "stopped"
    /\ progressPollingInterval = 0
    /\ Pending("execute") # {}

\* Reading the computed total raises a TypeError: the reduce callback reads
\* run_count of an undefined slot.
TotalThrows == store = "task" /\ HasUndefined(taskQueue)

\* The computed total of the store in use.
Total == IF store = "task" THEN totalTasks ELSE totalRuns

\* C18: in every reachable state the computed total (totalTasks, totalRuns)
\* has a value, and it is the sum of run_count over the jobs in the queue.
C18_TotalRunsIsSum ==
    /\ ~TotalThrows
    /\ Total = SumRunCount(taskQueue)

\* The positions of the jobs whose status is running (active).
ActiveJobs == {i \in 1..Len(taskQueue) : taskQueue[i].status = "running"}

\* C19: in every reachable state at most one job of the queue is active, and
\* a job is active only while the controller is running.
C19_AtMostOneActive ==
    /\ Cardinality(ActiveJobs) <= 1
    /\ ActiveJobs # {} => isRunning

\* A call of pauseExecution or resumeExecution.
PauseOrResumeCalled == pauseExecution \/ resumeExecution

\* pauseExecution or resumeExecution runs on after its request was answered
\* or failed.
PauseOrResumeSettled ==
    \E r \in BagToSet(requests) :
        \/ pauseExecutionResolved(r)
        \/ resumeExecutionResolved(r)
        \/ pauseOrResumeFailed(r)

\* C20: no step of pauseExecution or resumeExecution, whether its request
\* succeeds or fails, changes the controller flag or the poller: a running
\* controller stays running and keeps polling; called while not running they
\* send nothing and change nothing.
C20_PauseResumeKeepRunning ==
    [][/\ (PauseOrResumeCalled \/ PauseOrResumeSettled) =>
             UNCHANGED <<isRunning, progressPollingInterval, taskQueue>>
       /\ (~isRunning /\ PauseOrResumeCalled) => UNCHANGED vars]_vars

\* C20 witness: a pause has been acknowledged during a polling run, which is
\* still running and polling.
C20_Witness ==
    /\ store = "task"
    /\ currentProgress.status = "paused"
    /\ isRunning
    /\ progressPollingInterval # 0

\* The run of the scenario after its second poll: one job that repeats three
\* times, accepted and polling, the snapshot at 2 of 3, no history fetched.
AfterSecondPoll ==
    /\ Len(taskQueue) = 1
    /\ taskQueue[1].run_count = ScenarioRunCount
    /\ isRunning
    /\ progressPollingInterval # 0
    /\ currentProgress.total = ScenarioRunCount
    /\ currentProgress.current = ScenarioRunCount - 1
    /\ currentProgress.isRunning
    /\ CopiesIn(HistoryRequest, requests) = 0

\* The third poll of the scenario is reconciled: current 3 of 3, isRunning
\* false, under whichever label the backend gives it.
ThirdPollReconciled ==
    \E r \in BagToSet(requests) : \E status \in BackendLabels :
        /\ r.cur = ScenarioRunCount
        /\ Reconciled(r, Snapshot(r, ScenarioRunCount, status, FALSE))

\* C21: in the scenario of one job with run count 3, when the third poll
\* (current 3, isRunning false) is reconciled after the second, the snapshot
\* is at 3 of 3, the controller is idle, the poller is cancelled and exactly
\* one history request has been sent.
C21_ScenarioB ==
    [][(AfterSecondPoll /\ ThirdPollReconciled)
       => /\ currentProgress'.current = ScenarioRunCount
          /\ currentProgress'.total = ScenarioRunCount
          /\ isRunning' = FALSE
          /\ progressPollingInterval' = 0
          /\ CopiesIn(HistoryRequest, requests') = 1]_vars

\* C22: stopExecution called in a polling run settles the store at once,
\* without waiting for the backend: the call itself leaves the controller
\* idle and the poller cancelled, and no tick sends a progress request
\* while the stop request is still unanswered.
C22_StopDoesNotWait ==
    [][/\ (isRunning /\ progressPollingInterval # 0 /\ stopExecution) =>
             /\ isRunning' = FALSE
             /\ progressPollingInterval' = 0
       /\ Pending("stop") # {} => ~pollTick]_vars

\* C23: in every reachable state the poller's timer is set only while the
\* controller is running.
C23_TimerOnlyWhileRunning == progressPollingInterval # 0 => isRunning

\* startExecution awaits the answer to its submit and no poller runs yet.
Starting ==
    /\ isRunning
    /\ progressPollingInterval = 0
    /\ Pending("execute") # {}

\* C24: stopExecution called while startExecution still awaits the answer to
\* its submit has no effect, and an accepted submit starts no poller on a
\* controller that is idle.
C24_StopDuringStartingIgnored ==
    [][/\ (Starting /\ stopExecution) => UNCHANGED vars
       /\ (~isRunning /\ \E r \in BagToSet(requests) : startExecutionAccepted(r))
             => progressPollingInterval' = 0]_vars

\* A call of updateTask with any of the partial jobs it accepts.
UpdateCalled ==
    \E taskId \in Ids, updates \in Updates(store) : updateTask(taskId, updates)

\* C25: updateTask changes the id of no job of the queue: every position
\* holds the id it held before the call.
C25_UpdateKeepsIds ==
    [][UpdateCalled =>
         /\ Len(taskQueue') = Len(taskQueue)
         /\ \A i \in 1..Len(taskQueue) : taskQueue'[i].id = taskQueue[i].id]_vars

\* C26: a job addTask appends in useTaskStore is pending, the jobs already
\* queued keep their status, and updateTask changes no job's status.
C26_StatusNotOperatorSettable ==
    [][/\ (store = "task" /\ \E rc \in WideRunCounts : addTask(rc)) =>
             /\ taskQueue'[Len(taskQueue')].status = "pending"
             /\ \A i \in 1..Len(taskQueue) :
                   taskQueue'[i].status = taskQueue[i].status
       /\ UpdateCalled =>
             \A i \in 1..Len(taskQueue) :
                taskQueue'[i].status = taskQueue[i].status]_vars

\* stopExecution runs on after its request was answered.
StopResolved ==
    \E r \in BagToSet(requests) :
        stopExecutionResolved(r) \/ simpleStopExecutionResolved(r)

\* C27: when stopExecution settles a run, current and total of the progress
\* snapshot are what they were before; only the label, stopped, and isRunning,
\* false, are written.
C27_StopFreezesSnapshot ==
    [][(isRunning /\ progressPollingInterval # 0 /\ StopResolved) =>
         /\ currentProgress'.current = currentProgress.current
         /\ currentProgress'.total = currentProgress.total
         /\ currentProgress'.status = "stopped"
         /\ currentProgress'.isRunning = FALSE]_vars

\* C28: in every state in which no request awaits its answer, the controller
\* flag and the progress snapshot agree on whether a run is on.
C28_FlagsAgree ==
    requests = EmptyBag => isRunning = currentProgress.isRunning

\* No job of the queue has this id.
UnknownId(taskId) == \A i \in 1..Len(taskQueue) : taskQueue[i].id # taskId

\* C29: removeTask, updateTask, moveTaskUp and moveTaskDown called with an id
\* no job has leave the queue as it was, and so do moveTaskUp on the first
\* job and moveTaskDown on the last.
C29_UnknownIdIsNoOp ==
    [][\A taskId \in Ids :
          /\ (/\ UnknownId(taskId)
              /\ \/ removeTask(taskId)
                 \/ \E updates \in Updates(store) : updateTask(taskId, updates)
                 \/ moveTaskUp(taskId)
                 \/ moveTaskDown(taskId))
                => taskQueue' = taskQueue
          /\ (FindIndex(taskQueue, taskId) = 1 /\ moveTaskUp(taskId))
                => taskQueue' = taskQueue
          /\ (/\ taskQueue # <<>>
              /\ FindIndex(taskQueue, taskId) = Len(taskQueue)
              /\ moveTaskDown(taskId))
                => taskQueue' = taskQueue]_vars

\* A new run has just been started: its submit is awaited, its snapshot is
\* the one startExecution wrote and no poller has been started for it, so a
\* progress request still in flight was sent during an earlier run.
NewRunStarting ==
    /\ Starting
    /\ currentProgress = PreparingProgress(currentProgress.total)

\* C30: a progress response whose request was sent during an earlier run
\* changes neither the progress snapshot, the controller flag nor the poller
\* of the run started since.
C30_EarlierRunResponseNotApplied ==
    [][(/\ NewRunStarting
        /\ \E r \in BagToSet(requests) : \E progress \in Snapshots(r) :
              Reconciled(r, progress))
       => UNCHANGED <<currentProgress, isRunning, progressPollingInterval>>]_vars

====
